---- MODULE Spec2Model ----
(***************************************************************************)
(* Discrete conditionals (gtsam/discrete/DiscreteConditional.cpp) and the  *)
(* discrete Bayes tree (gtsam/discrete/DiscreteBayesTree.cpp).             *)
(*                                                                         *)
(* Probabilities are exact multiples of 1/Resolution: the integer w stands *)
(* for the double w/Resolution, so One stands for 1.0 and products of      *)
(* weights are products of numerators.                                     *)
(***************************************************************************)
EXTENDS Integers, Sequences, FiniteSets, TLC

VARIABLES
    cond,       \* the DiscreteConditional under query: keys_, nrFrontals_, cardinalities, table
    ndebug,     \* TRUE when the build defines NDEBUG (assert() compiles to nothing)
    values,     \* the caller's DiscreteValues (evidence; mutated by the in-place operations)
    arg,        \* the caller's DiscreteValues as it was when the last call was entered
    op,         \* the last operation called
    ret,        \* what the last call returned or threw
    rng,        \* state of the function-local static mt19937 of sample()
    rng0,       \* state of that generator when the last call was entered
    roots_,     \* DiscreteBayesTree::roots_: the root cliques, in order
    children,   \* DiscreteBayesTreeClique::children of every clique, in order
    conditional_,  \* DiscreteBayesTreeClique::conditional_ of every clique
    treeValues, \* the DiscreteValues given to evaluate
    result,     \* what DiscreteBayesTree::evaluate returned
    threads     \* per thread: where it is in sample(), and its locals

queryVars == <<cond, ndebug, values, arg, op, ret, rng, rng0>>
treeVars == <<roots_, children, conditional_, treeValues, result>>
vars == <<queryVars, treeVars, threads>>

(***************************************************************************)
(* Bounds                                                                  *)
(***************************************************************************)
\* weights are multiples of 1/Resolution
Resolution == 2
\* number of distinguishable generator states (the real period is 2^19937-1)
RngPeriod == 2
\* largest number of cliques in a Bayes tree
MaxCliques == 3
\* number of threads calling sample
NrThreads == 2
\* largest cardinality of a variable
MaxCardinality == 3

One == Resolution
Weights == 0..One

(***************************************************************************)
(* DiscreteValues = Assignment<Key>: a std::map from keys to values        *)
(***************************************************************************)
EmptyValues == << >>

Has(x, k) == k \in DOMAIN x

\* x[k] = v of std::map: inserts the key or overwrites its value
Extend(x, k, v) == [j \in (DOMAIN x) \cup {k} |-> IF j = k THEN v ELSE x[j]]

Restrict(x, K) == [j \in K |-> x[j]]

KeySet(s) == {s[i] : i \in 1..Len(s)}

\* every assignment of the keys K within their cardinalities
Assignments(K, card) ==
    {x \in [K -> 0..(MaxCardinality - 1)] : \A k \in K : x[k] < card[k]}

PartialAssignments(K, card) ==
    UNION {Assignments(S, card) : S \in SUBSET K}

(***************************************************************************)
(* The algebraic decision tree (ADT) a conditional is backed by: a         *)
(* function from the assignments of its keys to weights.                   *)
(***************************************************************************)
TableKeys(t) == DOMAIN (CHOOSE x \in DOMAIN t : TRUE)

\* ADT::choose(j, value): the sub-table consistent with j = value
ADTchoose(t, j, v) ==
    IF j \notin TableKeys(t) THEN t
    ELSE LET K == TableKeys(t) \ {j}
         IN  [x \in {Restrict(y, K) : y \in {z \in DOMAIN t : z[j] = v}}
                 |-> t[Extend(x, j, v)]]

\* ADT::operator()(assignment): needs a value for every key of the table
ADTeval(t, x) ==
    IF TableKeys(t) \subseteq DOMAIN x
    THEN [ok |-> TRUE, val |-> t[Restrict(x, TableKeys(t))]]
    ELSE [ok |-> FALSE, val |-> 0]

(***************************************************************************)
(* Conditional<...>: keys_ holds the frontals first, then the parents      *)
(***************************************************************************)
nrFrontals(c) == c.nrFrontals
frontals(c) == SubSeq(c.keys, 1, c.nrFrontals)
parents(c) == SubSeq(c.keys, c.nrFrontals + 1, Len(c.keys))
firstFrontalKey(c) == c.keys[1]
cardinality(c, k) == c.card[k]

(***************************************************************************)
(* Outcomes of a call                                                      *)
(***************************************************************************)
NoCall == [kind |-> "none", val |-> 0]
Value(v) == [kind |-> "value", val |-> v]
Table(t) == [kind |-> "table", val |-> t]
Factor(t) == [kind |-> "factor", val |-> t]
Void == [kind |-> "void", val |-> 0]
\* runtime_error("DiscreteConditional::choose: parent value missing")
MissingParentValue == [kind |-> "MissingParentValue", val |-> 0]
\* runtime_error("Expected only one frontal variable in choose.")
UnsupportedArity == [kind |-> "UnsupportedArity", val |-> 0]
\* assert(nrFrontals() == 1) failed: the process aborts
AssertionFailed == [kind |-> "AssertionFailed", val |-> 0]
\* the table was evaluated at an assignment lacking one of its keys
ValueUndefined == [kind |-> "ValueUndefined", val |-> 0]

Returned(r) == r.kind \in {"value", "table", "factor", "void"}

(***************************************************************************)
(* DiscreteConditional::choose                                             *)
(***************************************************************************)
\* the loop over parents(): ps is what is left of the parent list.  A parent
\* absent from parentsValues makes at() throw; the handler prints and throws
\* the runtime_error (when the first parent is the missing one it prints
\* `value` before anything was stored in it: only the printed text is
\* affected, the throw is not).
\* faulty variant: a missing parent is silently taken to be 0
RECURSIVE chooseLoopDefault(_, _, _)
chooseLoopDefault(pFS, ps, parentsValues) ==
    IF ps = << >> THEN Table(pFS)
    ELSE LET j == Head(ps)
         IN  chooseLoopDefault(
                 ADTchoose(pFS, j, IF Has(parentsValues, j) THEN parentsValues[j] ELSE 0),
                 Tail(ps), parentsValues)

RECURSIVE chooseLoop(_, _, _)
chooseLoop(pFS, ps, parentsValues) ==
    IF ps = << >> THEN Table(pFS)
    ELSE LET j == Head(ps)
         IN  IF ~Has(parentsValues, j) THEN MissingParentValue
             ELSE chooseLoop(ADTchoose(pFS, j, parentsValues[j]), Tail(ps),
                             parentsValues)

\* faulty variant: the loop runs over all the keys instead of the parents
chooseAllKeys(c, parentsValues) == chooseLoop(c.table, c.keys, parentsValues)

choose(c, parentsValues) == chooseLoop(c.table, parents(c), parentsValues)

(***************************************************************************)
(* DiscreteConditional::chooseAsFactor (toFactor)                          *)
(***************************************************************************)
chooseAsFactor(c, parentsValues) ==
    LET pFS == choose(c, parentsValues)
    IN  IF pFS.kind # "table" THEN pFS
        ELSE IF nrFrontals(c) # 1 THEN UnsupportedArity
        ELSE Factor(pFS.val)

(***************************************************************************)
(* DiscreteConditional::solve                                              *)
(***************************************************************************)
\* faulty variant: >= in place of >, so the last maximum wins
RECURSIVE solveLoopLast(_, _, _, _, _, _)
solveLoopLast(pFS, j, k, value, maxP, mpe) ==
    IF value >= k THEN Value(mpe)
    ELSE LET pValueS == ADTeval(pFS, Extend(EmptyValues, j, value))
         IN  IF ~pValueS.ok THEN ValueUndefined
             ELSE IF pValueS.val >= maxP
                  THEN solveLoopLast(pFS, j, k, value + 1, pValueS.val, value)
                  ELSE solveLoopLast(pFS, j, k, value + 1, maxP, mpe)

\* for (value = 0; value < cardinality(j); value++): frontals holds key j only
RECURSIVE solveLoop(_, _, _, _, _, _)
solveLoop(pFS, j, k, value, maxP, mpe) ==
    IF value >= k THEN Value(mpe)
    ELSE LET pValueS == ADTeval(pFS, Extend(EmptyValues, j, value))
         IN  IF ~pValueS.ok THEN ValueUndefined
             ELSE IF pValueS.val > maxP
                  THEN solveLoop(pFS, j, k, value + 1, pValueS.val, value)
                  ELSE solveLoop(pFS, j, k, value + 1, maxP, mpe)

\* faulty variant: the assert on the number of frontals is gone
solveUnchecked(c, parentsValues, nd) ==
    LET pFS == choose(c, parentsValues)
    IN  IF pFS.kind # "table" THEN pFS
        ELSE LET j == firstFrontalKey(c)
             IN  solveLoop(pFS.val, j, cardinality(c, j), 0, 0, 0)

solve(c, parentsValues, nd) ==
    LET pFS == choose(c, parentsValues)
    IN  IF pFS.kind # "table" THEN pFS
        ELSE IF nrFrontals(c) # 1 /\ ~nd THEN AssertionFailed
        ELSE LET j == firstFrontalKey(c)
             IN  solveLoop(pFS.val, j, cardinality(c, j), 0, 0, 0)

(***************************************************************************)
(* DiscreteConditional::sample                                             *)
(***************************************************************************)
RECURSIVE Sum(_)
Sum(p) == IF p = << >> THEN 0 ELSE Head(p) + Sum(Tail(p))

\* std::discrete_distribution over the weights p, driven by the variate u in
\* [0, Sum(p)): the first index whose cumulative weight exceeds u
RECURSIVE discreteIndex(_, _, _)
discreteIndex(p, u, i) ==
    IF i >= Len(p) THEN Len(p) - 1
    ELSE IF u < Sum(SubSeq(p, 1, i + 1)) THEN i
    ELSE discreteIndex(p, u, i + 1)

\* distribution(rng): every index the call can produce.  With all weights 0
\* the constructor's precondition (a positive sum) is broken and the result
\* is not defined by the library: any index may come out.
discrete_distribution(p) ==
    IF Sum(p) > 0 THEN {discreteIndex(p, u, 0) : u \in 0..(Sum(p) - 1)}
    ELSE 0..(Len(p) - 1)

\* one engine invocation
advance(r) == (r + 1) % RngPeriod

\* sample ended with outcome o before distribution(rng) was reached
Undrawn(o, r) == [ret |-> o, rng |-> r, drew |-> FALSE]

\* faulty variant: no shortcut exit, the generator is always consulted
RECURSIVE sampleLoopNoShortcut(_, _, _, _, _, _)
sampleLoopNoShortcut(pFS, key, nj, value, p, r) ==
    IF value >= nj
    THEN {[ret |-> Value(i), rng |-> advance(r), drew |-> TRUE] :
              i \in discrete_distribution(p)}
    ELSE LET pv == ADTeval(pFS, Extend(EmptyValues, key, value))
         IN  IF ~pv.ok THEN {Undrawn(ValueUndefined, r)}
             ELSE sampleLoopNoShortcut(pFS, key, nj, value + 1, Append(p, pv.val), r)

\* the loop filling p, with the shortcut exit on p[value] == 1.0; returns the
\* outcome and the generator state after the call
RECURSIVE sampleLoop(_, _, _, _, _, _)
sampleLoop(pFS, key, nj, value, p, r) ==
    IF value >= nj
    THEN {[ret |-> Value(i), rng |-> advance(r), drew |-> TRUE] :
              i \in discrete_distribution(p)}
    ELSE LET pv == ADTeval(pFS, Extend(EmptyValues, key, value))
         IN  IF ~pv.ok THEN {Undrawn(ValueUndefined, r)}
             ELSE IF pv.val = One THEN {Undrawn(Value(value), r)}
             ELSE sampleLoop(pFS, key, nj, value + 1, Append(p, pv.val), r)

sample(c, parentsValues, nd, r) ==
    LET pFS == choose(c, parentsValues)
    IN  IF pFS.kind # "table" THEN {Undrawn(pFS, r)}
        ELSE IF nrFrontals(c) # 1 /\ ~nd THEN {Undrawn(AssertionFailed, r)}
        ELSE LET key == firstFrontalKey(c)
             IN  sampleLoop(pFS.val, key, cardinality(c, key), 0, << >>, r)

(***************************************************************************)
(* DiscreteConditional::solveInPlace                                       *)
(***************************************************************************)
RECURSIVE Product(_)
Product(s) == IF s = << >> THEN 1 ELSE Head(s) * Product(Tail(s))

\* cartesianProduct(keys): the n-th configuration; the first key runs fastest
RECURSIVE configuration(_, _, _)
configuration(c, ks, n) ==
    IF ks = << >> THEN EmptyValues
    ELSE LET k == cardinality(c, Head(ks))
         IN  Extend(configuration(c, Tail(ks), n \div k), Head(ks), n % k)

nrConfigurations(c) ==
    Product([i \in 1..nrFrontals(c) |-> cardinality(c, frontals(c)[i])])

\* for (frontalVals : allPosbValues): mpe starts as an empty DiscreteValues
RECURSIVE mpeLoop(_, _, _, _, _)
mpeLoop(c, pFS, n, maxP, mpe) ==
    IF n >= nrConfigurations(c) THEN mpe
    ELSE LET frontalVals == configuration(c, frontals(c), n)
             pValueS == ADTeval(pFS, frontalVals).val
         IN  IF pValueS > maxP THEN mpeLoop(c, pFS, n + 1, pValueS, frontalVals)
             ELSE mpeLoop(c, pFS, n + 1, maxP, mpe)

\* faulty variant: *values = mpe, the other entries of the assignment are lost
setValuesOnly(vals, fs, mpe) ==
    [j \in KeySet(fs) |-> IF Has(mpe, j) THEN mpe[j] ELSE 0]

\* (*values)[j] = mpe[j] for every frontal j; mpe[j] of a map without j is 0
RECURSIVE setValues(_, _, _)
setValues(vals, fs, mpe) ==
    IF fs = << >> THEN vals
    ELSE LET j == Head(fs)
         IN  setValues(Extend(vals, j, IF Has(mpe, j) THEN mpe[j] ELSE 0),
                       Tail(fs), mpe)

\* faulty variant: the frontal entries are created before choose is called
solveInPlaceEager(c, vals) ==
    LET pFS == choose(c, vals)
    IN  IF pFS.kind # "table"
        THEN [ret |-> pFS, values |-> setValues(vals, frontals(c), vals)]
        ELSE [ret |-> Void,
              values |-> setValues(vals, frontals(c),
                                   mpeLoop(c, pFS.val, 0, 0, EmptyValues))]

solveInPlace(c, vals) ==
    LET pFS == choose(c, vals)
    IN  IF pFS.kind # "table" THEN [ret |-> pFS, values |-> vals]
        ELSE [ret |-> Void,
              values |-> setValues(vals, frontals(c),
                                   mpeLoop(c, pFS.val, 0, 0, EmptyValues))]

(***************************************************************************)
(* DiscreteConditional::sampleInPlace                                      *)
(***************************************************************************)
sampleInPlace(c, vals, nd, r) ==
    IF nrFrontals(c) # 1 /\ ~nd
    THEN {[ret |-> AssertionFailed, values |-> vals, rng |-> r]}
    ELSE LET j == firstFrontalKey(c)
         IN  {IF sampled.ret.kind = "value"
              THEN [ret |-> Void, values |-> Extend(vals, j, sampled.ret.val),
                    rng |-> sampled.rng]
              ELSE [ret |-> sampled.ret, values |-> vals, rng |-> sampled.rng]
              : sampled \in sample(c, vals, nd, r)}

(***************************************************************************)
(* Doubles of the Bayes tree: exact fractions n/d in lowest terms          *)
(***************************************************************************)
RECURSIVE GCD(_, _)
GCD(a, b) == IF b = 0 THEN a ELSE GCD(b, a % b)

Fraction(n, d) == IF n = 0 THEN [n |-> 0, d |-> 1]
                  ELSE [n |-> n \div GCD(n, d), d |-> d \div GCD(n, d)]

\* the double a weight stands for
Double(w) == Fraction(w, Resolution)
Times(a, b) == Fraction(a.n * b.n, a.d * b.d)
NotEvaluated == [n |-> 0, d |-> 0]

(***************************************************************************)
(* The conditionals queried: P(F | parents) over keys 1..3, any table      *)
(***************************************************************************)
\* P(1) with a frontal of the largest cardinality; key 2 is foreign to it
ShapeA == [nrFrontals |-> 1, keys |-> <<1>>,
           card |-> [k \in {1, 2} |-> IF k = 1 THEN MaxCardinality ELSE 2]]
\* P(1 | 2), both binary
ShapeB == [nrFrontals |-> 1, keys |-> <<1, 2>>, card |-> [k \in {1, 2} |-> 2]]
\* P(1, 2 | 3): two binary frontals, a parent with a single value
ShapeD == [nrFrontals |-> 2, keys |-> <<1, 2, 3>>,
           card |-> [k \in {1, 2, 3} |-> IF k = 3 THEN 1 ELSE 2]]
\* P(1 | 3, 2), all binary
ShapeC == [nrFrontals |-> 1, keys |-> <<1, 3, 2>>, card |-> [k \in {1, 2, 3} |-> 2]]

Conditionals(shape, W) ==
    {[nrFrontals |-> shape.nrFrontals, keys |-> shape.keys, card |-> shape.card,
      table |-> t] : t \in [Assignments(KeySet(shape.keys), shape.card) -> W]}

Evidence(c) == PartialAssignments(DOMAIN c.card, c.card)

NoTree ==
    /\ roots_ = << >>
    /\ children = << >>
    /\ conditional_ = << >>
    /\ treeValues = EmptyValues
    /\ result = NotEvaluated

NoThreads == threads = << >>

InitCall ==
    /\ values \in Evidence(cond)
    /\ arg = values
    /\ op = "none"
    /\ ret = NoCall
    /\ rng = 0
    /\ rng0 = 0

Init ==
    /\ cond \in Conditionals(ShapeA, Weights) \cup Conditionals(ShapeB, Weights)
                  \cup Conditionals(ShapeD, Weights)
    /\ ndebug \in BOOLEAN
    /\ InitCall
    /\ NoTree
    /\ NoThreads

\* a call that leaves the caller's values and the generator alone
Pure(name, outcome) ==
    /\ op' = name
    /\ arg' = values
    /\ ret' = outcome
    /\ rng0' = rng
    /\ UNCHANGED <<cond, ndebug, values, rng, treeVars, threads>>

\* the caller stores a value in its DiscreteValues between two calls
Assign ==
    \E k \in DOMAIN cond.card : \E v \in 0..(cardinality(cond, k) - 1) :
        /\ values' = Extend(values, k, v)
        /\ arg' = values'
        /\ op' = "assign"
        /\ ret' = NoCall
        /\ rng0' = rng
        /\ UNCHANGED <<cond, ndebug, rng, treeVars, threads>>

Choose == Pure("choose", choose(cond, values))

ChooseAsFactor == Pure("chooseAsFactor", chooseAsFactor(cond, values))

Solve == Pure("solve", solve(cond, values, ndebug))

Sample ==
    \E o \in sample(cond, values, ndebug, rng) :
        /\ op' = "sample"
        /\ arg' = values
        /\ ret' = o.ret
        /\ rng0' = rng
        /\ rng' = o.rng
        /\ UNCHANGED <<cond, ndebug, values, treeVars, threads>>

SolveInPlace ==
    LET o == solveInPlace(cond, values)
    IN  /\ op' = "solveInPlace"
        /\ arg' = values
        /\ ret' = o.ret
        /\ values' = o.values
        /\ rng0' = rng
        /\ UNCHANGED <<cond, ndebug, rng, treeVars, threads>>

SampleInPlace ==
    \E o \in sampleInPlace(cond, values, ndebug, rng) :
        /\ op' = "sampleInPlace"
        /\ arg' = values
        /\ ret' = o.ret
        /\ values' = o.values
        /\ rng0' = rng
        /\ rng' = o.rng
        /\ UNCHANGED <<cond, ndebug, treeVars, threads>>

Next ==
    \/ Assign
    \/ Choose
    \/ ChooseAsFactor
    \/ Solve
    \/ Sample
    \/ SolveInPlace
    \/ SampleInPlace

Spec == Init /\ [][Next]_vars

(***************************************************************************)
(* DiscreteBayesTreeClique::evaluate and DiscreteBayesTree::evaluate       *)
(***************************************************************************)
\* (*conditional_)(values)
conditionalAt(cnd, c, x) == Double(ADTeval(cnd[c], x).val)

\* result = (*conditional_)(values); for (child : children) result *=
\* child->evaluate(values).  cs is what is left of a list of cliques and acc
\* the running result; the same loop serves the roots of the tree.
\* faulty variant: the children are not multiplied in
cliqueEvaluateOwn(ch, cnd, c, x) == conditionalAt(cnd, c, x)

RECURSIVE cliqueEvaluate(_, _, _, _)
RECURSIVE evaluateAll(_, _, _, _, _)
cliqueEvaluate(ch, cnd, c, x) ==
    evaluateAll(ch, cnd, ch[c], x, conditionalAt(cnd, c, x))

evaluateAll(ch, cnd, cs, x, acc) ==
    IF cs = << >> THEN acc
    ELSE evaluateAll(ch, cnd, Tail(cs), x,
                     Times(acc, cliqueEvaluate(ch, cnd, Head(cs), x)))

\* double result = 1.0; for (root : roots_) result *= root->evaluate(values)
treeEvaluate(rs, ch, cnd, x) == evaluateAll(ch, cnd, rs, x, Double(One))

(***************************************************************************)
(* SpecTree: every forest of up to MaxCliques cliques; clique c holds a    *)
(* normalized conditional on the binary variable c.  A clique's parent has *)
(* a smaller number, child and root lists are in increasing order.         *)
(***************************************************************************)
\* the cliques of 1..n whose parent is c (0: the roots), in increasing order
RECURSIVE childList(_, _, _)
childList(parentOf, c, n) ==
    IF n = 0 THEN << >>
    ELSE IF parentOf[n] = c THEN Append(childList(parentOf, c, n - 1), n)
    ELSE childList(parentOf, c, n - 1)

Forests(n) == {f \in [1..n -> 0..n] : \A i \in 1..n : f[i] < i}

\* P(c = 0) = w / Resolution, P(c = 1) = 1 - w / Resolution
CliqueConditionals(c) ==
    {[x \in [{c} -> {0, 1}] |-> IF x[c] = 0 THEN w ELSE One - w] : w \in Weights}

NoQuery ==
    /\ cond = [nrFrontals |-> 0, keys |-> << >>, card |-> << >>, table |-> << >>]
    /\ ndebug = FALSE
    /\ values = EmptyValues
    /\ arg = EmptyValues
    /\ op = "none"
    /\ ret = NoCall
    /\ rng = 0
    /\ rng0 = 0

InitTree ==
    /\ \E n \in 0..MaxCliques : \E parentOf \in Forests(n) :
          /\ roots_ = childList(parentOf, 0, n)
          /\ children = [c \in 1..n |-> childList(parentOf, c, n)]
          /\ conditional_ \in [1..n -> UNION {CliqueConditionals(c) : c \in 1..n}]
          /\ \A c \in 1..n : conditional_[c] \in CliqueConditionals(c)
          /\ treeValues \in [1..n -> {0, 1}]
    /\ result = NotEvaluated
    /\ NoQuery
    /\ NoThreads

Evaluate ==
    /\ result' = treeEvaluate(roots_, children, conditional_, treeValues)
    /\ UNCHANGED <<queryVars, roots_, children, conditional_, treeValues, threads>>

NextTree == Evaluate

SpecTree == InitTree /\ [][NextTree]_vars

(***************************************************************************)
(* SpecChoose: choose on P(1 | 3, 2), every table with weights 0 and 1.0   *)
(***************************************************************************)
InitChoose ==
    /\ cond \in Conditionals(ShapeC, {0, One})
    /\ ndebug \in BOOLEAN
    /\ InitCall
    /\ NoTree
    /\ NoThreads

NextChoose ==
    \/ Assign
    \/ Choose
    \/ ChooseAsFactor

SpecChoose == InitChoose /\ [][NextChoose]_vars

(***************************************************************************)
(* Vocabulary of the properties                                            *)
(***************************************************************************)
SingleFrontal == nrFrontals(cond) = 1
Frontal == firstFrontalKey(cond)
FrontalValues == 0..(cardinality(cond, Frontal) - 1)
ParentSet == KeySet(parents(cond))
ParentsSupplied(e) == ParentSet \subseteq DOMAIN e

\* choose(evidence)(frontal = v), for a single-frontal conditional and an
\* evidence that supplies every parent
Restricted(e, v) == choose(cond, e).val[Extend(EmptyValues, Frontal, v)]

Orders(s) == {p \in [1..Len(s) -> KeySet(s)] : KeySet(p) = KeySet(s)}

(***************************************************************************)
(* SpecConc: NrThreads threads call sample on one shared conditional.  The *)
(* generator is a function-local static: its construction is synchronized  *)
(* by the language, its use in distribution(rng) is not, and sample takes  *)
(* no lock.  A thread is "idle" outside sample, at "scan" once it entered  *)
(* (choose and the loop filling p use locals only), at "draw" before       *)
(* distribution(rng) reads the engine state, at "drawn" after it read the  *)
(* state and before it stores the advanced state.                          *)
(***************************************************************************)
Threads == 1..NrThreads

Idle(r) == [pc |-> "idle", engine |-> 0, ret |-> r]

InEngine(t) == threads[t].pc = "drawn"

InitConc ==
    /\ cond \in Conditionals(ShapeA, Weights)
    /\ ndebug \in BOOLEAN
    /\ InitCall
    /\ NoTree
    /\ threads = [t \in Threads |-> Idle(NoCall)]

Step(t, new) ==
    /\ threads' = [threads EXCEPT ![t] = new]
    /\ UNCHANGED <<cond, ndebug, values, arg, op, ret, rng0, treeVars>>

\* thread t enters sample(values)
Call(t) ==
    /\ threads[t].pc = "idle"
    /\ Step(t, [pc |-> "scan", engine |-> 0, ret |-> NoCall])
    /\ UNCHANGED rng

\* choose, the assert and the loop: the call ends here when choose throws,
\* the assert fails or the shortcut is taken, and goes on to draw otherwise
Scan(t) ==
    /\ threads[t].pc = "scan"
    /\ \E o \in sample(cond, values, ndebug, rng) :
          IF ~o.drew
          THEN Step(t, Idle(o.ret))
          ELSE Step(t, [pc |-> "draw", engine |-> 0, ret |-> o.ret])
    /\ UNCHANGED rng

\* distribution(rng) reads the engine state
EngineRead(t) ==
    /\ threads[t].pc = "draw"
    /\ Step(t, [threads[t] EXCEPT !.pc = "drawn", !.engine = rng])
    /\ UNCHANGED rng

\* distribution(rng) stores the advanced state and sample returns.  When
\* another thread is inside the engine at the same time the two accesses
\* race: the stored state and the value returned are then anything.
EngineWrite(t) ==
    /\ threads[t].pc = "drawn"
    /\ IF \E u \in Threads \ {t} : InEngine(u)
       THEN /\ rng' \in 0..(RngPeriod - 1)
            /\ \E v \in FrontalValues : Step(t, Idle(Value(v)))
       ELSE /\ rng' = advance(threads[t].engine)
            /\ Step(t, Idle(threads[t].ret))

NextConc ==
    \E t \in Threads :
        \/ Call(t)
        \/ Scan(t)
        \/ EngineRead(t)
        \/ EngineWrite(t)

SpecConc == InitConc /\ [][NextConc]_vars

(***************************************************************************)
(* C1: DiscreteBayesTree::evaluate returns the product, over the cliques   *)
(* reachable from the roots, each taken once, of the clique's conditional  *)
(* at the assignment; 1.0 for a tree without roots.                        *)
(***************************************************************************)
RECURSIVE ReachableFrom(_, _)
ReachableFrom(S, n) ==
    IF n = 0 THEN S
    ELSE ReachableFrom(S \cup UNION {KeySet(children[c]) : c \in S}, n - 1)

ReachableCliques == ReachableFrom(KeySet(roots_), MaxCliques + 1)

RECURSIVE ProductOver(_)
ProductOver(S) ==
    IF S = {} THEN [n |-> 1, d |-> 1]
    ELSE LET c == CHOOSE c \in S : TRUE
         IN  Times(conditionalAt(conditional_, c, treeValues), ProductOver(S \ {c}))

C1_EvaluateIsProduct ==
    result # NotEvaluated =>
        /\ result = ProductOver(ReachableCliques)
        /\ roots_ = << >> => result = [n |-> 1, d |-> 1]

\* a chain of three cliques, each contributing 1/2
C1_Witness ==
    /\ result = [n |-> 1, d |-> 8]
    /\ Len(roots_) = 1
    /\ \E c \in KeySet(children[roots_[1]]) : children[c] # << >>

(***************************************************************************)
(* C9 as stated: no two threads are inside the generator at the same time  *)
(***************************************************************************)
C9_Serialized ==
    \A t \in DOMAIN threads : \A u \in DOMAIN threads :
        (t # u) => ~(InEngine(t) /\ InEngine(u))

(***************************************************************************)
(* C2: solve on a single-frontal conditional with every parent supplied    *)
(* returns the lowest frontal value whose restricted weight is maximal,    *)
(* and 0 when the restricted table is zero everywhere.                     *)
(***************************************************************************)
C2_SolveLowestArgmax ==
    (op = "solve" /\ SingleFrontal /\ ParentsSupplied(arg)) =>
        /\ ret.kind = "value"
        /\ ret.val \in FrontalValues
        /\ \A v \in FrontalValues : Restricted(arg, ret.val) >= Restricted(arg, v)
        /\ \A v \in FrontalValues :
               v < ret.val => Restricted(arg, v) < Restricted(arg, ret.val)
        /\ (\A v \in FrontalValues : Restricted(arg, v) = 0) => ret.val = 0

\* a tie between the values 1 and 2, above the value 0: solve returned 1
C2_Witness ==
    /\ op = "solve" /\ SingleFrontal /\ ParentsSupplied(arg)
    /\ ret = Value(1)
    /\ 2 \in FrontalValues
    /\ Restricted(arg, 2) = Restricted(arg, 1)
    /\ Restricted(arg, 0) < Restricted(arg, 1)

(***************************************************************************)
(* C3 as stated: choose throws MissingParentValue exactly when a parent is *)
(* absent from the evidence and returns a table otherwise, and solve,      *)
(* sample, toFactor, solveInPlace and sampleInPlace throw the same error   *)
(* when a parent is absent.                                                *)
(***************************************************************************)
C3_Original ==
    /\ op = "choose" =>
           /\ (ret.kind = "MissingParentValue") <=> ~ParentsSupplied(arg)
           /\ ParentsSupplied(arg) => ret.kind = "table"
    /\ (op \in {"solve", "sample", "chooseAsFactor", "solveInPlace", "sampleInPlace"}
            /\ ~ParentsSupplied(arg))
           => ret.kind = "MissingParentValue"

(***************************************************************************)
(* C3 amended: as stated for choose, solve, sample, toFactor and           *)
(* solveInPlace, and for sampleInPlace on a single-frontal conditional; on *)
(* a conditional with several frontals sampleInPlace checks                *)
(* assert(nrFrontals() == 1) before it reaches choose, so a build with     *)
(* assertions aborts there and only an NDEBUG build throws                 *)
(* MissingParentValue.                                                     *)
(***************************************************************************)
C3_MissingParent ==
    /\ op = "choose" =>
           /\ (ret.kind = "MissingParentValue") <=> ~ParentsSupplied(arg)
           /\ ParentsSupplied(arg) => ret.kind = "table"
    /\ (op \in {"solve", "sample", "chooseAsFactor", "solveInPlace"}
            /\ ~ParentsSupplied(arg))
           => ret.kind = "MissingParentValue"
    /\ (op = "sampleInPlace" /\ ~ParentsSupplied(arg)) =>
           IF SingleFrontal \/ ndebug
           THEN ret.kind = "MissingParentValue"
           ELSE ret.kind = "AssertionFailed"

\* sample was given an evidence that holds other keys but not the parent
C3_Witness ==
    /\ op = "sample"
    /\ arg # EmptyValues
    /\ ~ParentsSupplied(arg)
    /\ ret.kind = "MissingParentValue"

RestrictedAt(e, x) == choose(cond, e).val[Restrict(x, KeySet(frontals(cond)))]
FrontalConfigurations ==
    {configuration(cond, frontals(cond), n) : n \in 0..(nrConfigurations(cond) - 1)}

C5_ChooseIsRestriction ==
    (op = "choose" /\ SingleFrontal /\ ParentsSupplied(arg)) =>
        /\ ret.kind = "table"
        /\ TableKeys(ret.val) = {Frontal}
        /\ \A v \in FrontalValues :
               ret.val[Extend(EmptyValues, Frontal, v)]
                   = cond.table[Extend(Restrict(arg, ParentSet), Frontal, v)]
        /\ \A ps \in Orders(parents(cond)) : chooseLoop(cond.table, ps, arg) = ret
        /\ \A e \in Evidence(cond) :
               Restrict(e, ParentSet \cap DOMAIN e) = Restrict(arg, ParentSet)
                   => choose(cond, e) = ret

\* two parents with different values, the frontal itself in the evidence,
\* and a restricted table that is not constant
C5_Witness ==
    /\ op = "choose" /\ SingleFrontal /\ ParentsSupplied(arg)
    /\ Len(parents(cond)) = 2
    /\ arg[parents(cond)[1]] # arg[parents(cond)[2]]
    /\ Has(arg, Frontal)
    /\ ret.kind = "table"
    /\ ret.val[Extend(EmptyValues, Frontal, 0)] # ret.val[Extend(EmptyValues, Frontal, 1)]

(***************************************************************************)
(* C6 as stated: sample on a single-frontal conditional with every parent  *)
(* supplied returns a frontal value within the cardinality whose           *)
(* restricted weight is not 0.                                             *)
(***************************************************************************)
C6_SampleSupport ==
    (op = "sample" /\ SingleFrontal /\ ParentsSupplied(arg)) =>
        /\ ret.kind = "value"
        /\ ret.val \in FrontalValues
        /\ Restricted(arg, ret.val) # 0

(***************************************************************************)
(* C7: when some frontal value has restricted weight 1.0, sample returns   *)
(* the lowest such value and the generator is in the state it was in       *)
(* before the call.                                                        *)
(***************************************************************************)
C7_SampleShortcut ==
    (op = "sample" /\ SingleFrontal /\ ParentsSupplied(arg)
        /\ \E v \in FrontalValues : Restricted(arg, v) = One) =>
        /\ ret.kind = "value"
        /\ ret.val \in FrontalValues
        /\ Restricted(arg, ret.val) = One
        /\ \A v \in FrontalValues : v < ret.val => Restricted(arg, v) # One
        /\ rng = rng0

\* the shortcut was taken at a value other than 0 after an earlier call had
\* advanced the generator
C7_Witness ==
    /\ op = "sample" /\ SingleFrontal /\ ParentsSupplied(arg)
    /\ ret = Value(1)
    /\ Restricted(arg, 1) = One
    /\ rng0 # 0
    /\ rng = rng0

(***************************************************************************)
(* C8: on a single-frontal conditional with every parent supplied,         *)
(* solveInPlace and sampleInPlace return normally, the frontal key         *)
(* afterwards holds what solve (respectively sample) returns for the       *)
(* assignment as it was, every other key keeps its value and no other key  *)
(* is added or removed.                                                    *)
(***************************************************************************)
C8_InPlaceFrame ==
    (op \in {"solveInPlace", "sampleInPlace"} /\ SingleFrontal
        /\ ParentsSupplied(arg)) =>
        /\ ret.kind = "void"
        /\ DOMAIN values = (DOMAIN arg) \cup {Frontal}
        /\ \A k \in (DOMAIN arg) \ {Frontal} : values[k] = arg[k]
        /\ op = "solveInPlace" => Value(values[Frontal]) = solve(cond, arg, ndebug)
        /\ op = "sampleInPlace" =>
               \E o \in sample(cond, arg, ndebug, rng0) :
                   o.ret = Value(values[Frontal]) /\ o.rng = rng

\* solveInPlace added the frontal key, with a value other than 0, to an
\* assignment that held the parent only
C8_Witness ==
    /\ op = "solveInPlace" /\ SingleFrontal /\ ParentsSupplied(arg)
    /\ ParentSet # {}
    /\ DOMAIN arg = ParentSet
    /\ Has(values, Frontal)
    /\ values[Frontal] = 1

(***************************************************************************)
(* C10: when solveInPlace or sampleInPlace throws MissingParentValue the   *)
(* caller's assignment is what it was before the call.                     *)
(***************************************************************************)
C10_FailureKeepsValues ==
    (op \in {"solveInPlace", "sampleInPlace"} /\ ret.kind = "MissingParentValue")
        => values = arg

\* sampleInPlace failed on an assignment that holds the frontal only
C10_Witness ==
    /\ op = "sampleInPlace"
    /\ ret.kind = "MissingParentValue"
    /\ DOMAIN arg = {Frontal}
    /\ values = arg

====
